---- MODULE Spec2Model ----
(***************************************************************************)
(* Model of the content scheduling scripts:                                *)
(*   scripts/pipeline.mjs  main: renameInboxToContent, pruneTo200,         *)
(*                         copyImagesToDocs, buildIndexAndOutbox,          *)
(*                         writeAlerts, and the main().catch handler       *)
(*   scripts/ingest.mjs    ingest: readManifest, nextAvailableStartDate    *)
(*                                                                         *)
(* A calendar date "YYYY-MM-DD" is modelled by its day number; day 0 is    *)
(* Monday 2026-02-02.  The code compares ISO strings (sort(), <, compare,  *)
(* localeCompare), which orders four-digit-year dates chronologically, so  *)
(* integer order on day numbers is the same order.                         *)
(*                                                                         *)
(* A file name is a record [base, ext]; ext is what path.extname returns.  *)
(* A directory is a function from file name to file content.  The content  *)
(* of a file is identified by the name it was uploaded under.              *)
(***************************************************************************)
EXTENDS Integers, Sequences, FiniteSets, TLC

\* ------------------------------------------------------------- bounds
\* Number of midnights that pass.
MaxTicks == 1
\* Number of files the user uploads into the staging directories.
MaxUploads == 4
\* Number of injected I/O failures (a rename, rm, copy or write that throws).
MaxFailures == 1
\* Longest manifest.csv (pairs) the user writes.
MaxManifest == 2
\* Number of runs (of the pipeline or of ingest) started.
MaxRuns == 3
\* Number of slots beyond MAX_PAIRS - 1 the pre-filled store starts with.
MaxOver == 3

\* ------------------------------------------------- program constants
MAX_PAIRS == 200

POST_EXTS == {".txt", ".md"}

IMAGE_EXTS == {".png", ".jpg", ".jpeg"}

\* ------------------------------------------------------ file names
\* The placeholder file of an empty directory.  pipeline.mjs drops it from
\* both listings first thing (lines 80-81); the staging directories modelled
\* here hold none.
GitKeep == [base |-> ".gitkeep", ext |-> ""]

\* Names the user may upload into inbox/posts.
PostNames ==
  { [base |-> "a", ext |-> ".txt"], [base |-> "B", ext |-> ".MD"],
    [base |-> "c", ext |-> ".exe"] }

\* Names the user may upload into inbox/images.
ImageNames ==
  { [base |-> "a", ext |-> ".png"], [base |-> "B", ext |-> ".JPG"],
    [base |-> "c", ext |-> ".gif"] }

\* String.prototype.toLowerCase on the extensions that occur.
toLowerCase(ext) ==
  CASE ext = ".MD" -> ".md"
    [] ext = ".JPG" -> ".jpg"
    [] OTHER -> ext

\* a.localeCompare(b): collation order, letters compared without case first,
\* punctuation before letters.
localeRank(n) ==
  CASE n.base = ".gitkeep" -> 0
    [] n.base = "a" -> 1
    [] n.base = "B" -> 2
    [] OTHER -> 3

\* Array.prototype.sort() without comparator: UTF-16 code unit order
\* ("." = 46 < "B" = 66 < "a" = 97 < "c" = 99).
codeUnitRank(n) ==
  CASE n.base = ".gitkeep" -> 0
    [] n.base = "B" -> 1
    [] n.base = "a" -> 2
    [] OTHER -> 3

RECURSIVE sortLocale(_)
sortLocale(S) ==
  IF S = {} THEN <<>>
  ELSE LET m == CHOOSE x \in S : \A y \in S : localeRank(x) <= localeRank(y)
       IN <<m>> \o sortLocale(S \ {m})

RECURSIVE sortCodeUnit(_)
sortCodeUnit(S) ==
  IF S = {} THEN <<>>
  ELSE LET m == CHOOSE x \in S : \A y \in S : codeUnitRank(x) <= codeUnitRank(y)
       IN <<m>> \o sortCodeUnit(S \ {m})

\* ------------------------------------------------------------ dates
addDaysISO(iso, days) == iso + days

\* Date.getUTCDay(): 0 = Sunday .. 6 = Saturday; day 0 is a Monday.
getUTCDay(iso) == (iso + 1) % 7

\* A variant that takes Saturday for a weekday.
isWeekdayISO_sat(iso) == getUTCDay(iso) >= 1 /\ getUTCDay(iso) <= 6

isWeekdayISO(iso) == getUTCDay(iso) >= 1 /\ getUTCDay(iso) <= 5

RECURSIVE nextWeekdayISO(_)
nextWeekdayISO(iso) ==
  IF isWeekdayISO(iso) THEN iso ELSE nextWeekdayISO(addDaysISO(iso, 1))

nextISO(iso) == iso + 1

compare(a, b) == IF a < b THEN -1 ELSE IF a > b THEN 1 ELSE 0

Max(S) == CHOOSE x \in S : \A y \in S : y <= x

Min2(a, b) == IF a < b THEN a ELSE b

\* --------------------------------------------------------- directories
EmptyDir == [k \in {} |-> GitKeep]

\* A variant in which the file renamed never shows up at its destination.
putFile_lost(dir, name, data) == dir

\* fs.rename(src, dst) / fs.copyFile / fs.writeFile seen from the destination
\* directory: the file dst holds the content data, replacing what it held.
putFile(dir, name, data) ==
  [k \in DOMAIN dir \cup {name} |-> IF k = name THEN data ELSE dir[k]]

\* A variant that empties the directory whenever it removes a file.
rmFiles_all(dir, names) == IF names = {} THEN dir ELSE EmptyDir

\* fs.rm(path, {force: true}) seen from the directory.
rmFiles(dir, names) == [k \in DOMAIN dir \ names |-> dir[k]]

\* parseISOFromName over content/posts: the dates of the <date>.txt files.
postDates(cP) == DOMAIN cP

\* A content/images (or mirror) file name is <<date, ext>>, file
\* `${date}${ext}`; n.startsWith(date + ".") holds when its date part is date.
imagesOf(cI, date) == {k \in DOMAIN cI : k[1] = date}

\* An alert message; the fields a, b, c hold the numbers the text interpolates.
Msg(m, a, b, c) == [msg |-> m, a |-> a, b |-> b, c |-> c]

Absent == [absent |-> TRUE]

\* The days the clock may show at the start: a Monday and a Friday.
StartDays == {0, 4}

VARIABLES
  today,          \* parisISODate() at this moment
  inboxPosts,     \* set of file names in inbox/posts
  inboxImages,    \* set of file names in inbox/images
  contentPosts,   \* content/posts: date -> text content
  contentImages,  \* content/images: <<date, ext>> -> image content
  docsImages,     \* docs/assets/images: <<date, ext>> -> image content
  index,          \* docs/index.json: Absent or [count, posts]
  outbox,         \* docs/outbox/today.json: Absent or an index entry
  alertsFile,     \* docs/alerts.json: Absent or [messages |-> ...]
  pc,             \* position of the pipeline process
  alerts,         \* main's alerts array (gone when the process exits)
  ticks,          \* midnights passed so far
  uploads,        \* files uploaded so far
  failures,       \* I/O failures injected so far
  alloc,          \* the allocation (pipeline stage or ingest run) just made,
                  \* until the next step of that process
  runStart,       \* the staging, store and artifacts when the pipeline run
                  \* in progress, or just completed, started
  runs,           \* pipeline and ingest runs started so far
  lastEvent       \* "completed" or "failed" after a pipeline run ended so,
                  \* until the next upload or run; "other" otherwise

vars ==
  <<today, inboxPosts, inboxImages, contentPosts, contentImages, docsImages,
    index, outbox, alertsFile, pc, alerts, ticks, uploads, failures, alloc,
    runStart, runs, lastEvent>>

NoAlloc ==
  [entry |-> "none", outcome |-> "none", manifest |-> <<>>, assigned |-> <<>>]

NoRun ==
  [posts |-> {}, images |-> {}, contentPosts |-> EmptyDir,
   contentImages |-> EmptyDir, index |-> Absent, alertsFile |-> Absent,
   afterCompleted |-> FALSE]

Init ==
  /\ today \in StartDays
  /\ ticks = 0
  /\ inboxPosts = {}
  /\ inboxImages = {}
  /\ contentPosts = EmptyDir
  /\ contentImages = EmptyDir
  /\ docsImages = EmptyDir
  /\ index = Absent
  /\ outbox = Absent
  /\ alertsFile = Absent
  /\ pc = "idle"
  /\ alerts = <<>>
  /\ uploads = 0
  /\ failures = 0
  /\ alloc = NoAlloc
  /\ runStart = NoRun
  /\ runs = 0
  /\ lastEvent = "other"

\* ============================================================ environment

\* The user commits a file into inbox/posts.
UploadPost ==
  /\ pc = "idle"
  /\ uploads < MaxUploads
  /\ \E n \in PostNames \ inboxPosts : inboxPosts' = inboxPosts \cup {n}
  /\ uploads' = uploads + 1
  /\ lastEvent' = "other"
  /\ runStart' = NoRun
  /\ UNCHANGED <<today, ticks, inboxImages, contentPosts, contentImages,
                 docsImages, index, outbox, alertsFile, pc, alerts, failures,
                 alloc, runs>>

\* The user commits a file into inbox/images.
UploadImage ==
  /\ pc = "idle"
  /\ uploads < MaxUploads
  /\ \E n \in ImageNames \ inboxImages : inboxImages' = inboxImages \cup {n}
  /\ uploads' = uploads + 1
  /\ lastEvent' = "other"
  /\ runStart' = NoRun
  /\ UNCHANGED <<today, ticks, inboxPosts, contentPosts, contentImages,
                 docsImages, index, outbox, alertsFile, pc, alerts, failures,
                 alloc, runs>>

\* Midnight in Europe/Paris: parisISODate() returns the next day from now on.
\* The clock is read by the allocation (lines 110 and 70) and by
\* buildIndexAndOutbox (line 225) only, so a midnight during a pipeline run is
\* taken just before the stage that reads the clock next: between runs, or
\* between the allocation and the index stage.
Tick ==
  /\ pc \in {"idle", "index"}
  /\ ticks < MaxTicks
  /\ ticks' = ticks + 1
  /\ today' = today + 1
  /\ UNCHANGED <<inboxPosts, inboxImages, contentPosts, contentImages,
                 docsImages, index, outbox, alertsFile, pc, alerts, uploads,
                 failures, alloc, runStart, runs, lastEvent>>

\* ====================================================== pipeline.mjs

\* main, lines 237-238: a fresh alerts array, ensureDirs.
StartRun ==
  /\ pc = "idle"
  /\ runs < MaxRuns
  /\ runs' = runs + 1
  /\ pc' = "rename"
  /\ alerts' = <<>>
  /\ runStart' =
       [posts |-> inboxPosts \ {GitKeep}, images |-> inboxImages \ {GitKeep},
        contentPosts |-> contentPosts, contentImages |-> contentImages,
        index |-> index, alertsFile |-> alertsFile,
        afterCompleted |-> (lastEvent = "completed")]
  /\ lastEvent' = "other"
  /\ UNCHANGED <<today, ticks, inboxPosts, inboxImages, contentPosts,
                 contentImages, docsImages, index, outbox, alertsFile, uploads,
                 failures, alloc>>

\* Lines 110-123: tomorrow rolled to a weekday, or the weekday after the
\* latest scheduled date when that is later.
startCursor(todayISO, existingDates) ==
  LET tomorrow == addDaysISO(todayISO, 1)
      cursor == nextWeekdayISO(tomorrow)
  IN IF existingDates # {}
     THEN LET last == Max(existingDates)
              afterLast == nextWeekdayISO(addDaysISO(last, 1))
          IN IF compare(afterLast, cursor) > 0 THEN afterLast ELSE cursor
     ELSE cursor

\* Lines 132-134: skip occupied dates and weekends.
RECURSIVE skipUsed(_, _)
skipUsed(cursor, used) ==
  IF cursor \in used \/ ~isWeekdayISO(cursor)
  THEN skipUsed(nextWeekdayISO(addDaysISO(cursor, 1)), used)
  ELSE cursor

\* Line 152: the cursor after a pair was placed on cur.
advanceCursor(cur) == nextWeekdayISO(addDaysISO(cur, 1))

\* Lines 85-87 and 89-91: the staged names with an allowed extension.
allowedPosts(names) == {n \in names : toLowerCase(n.ext) \in POST_EXTS}

allowedImages(names) == {n \in names : toLowerCase(n.ext) \in IMAGE_EXTS}

\* Names the user writes into manifest.csv.
ManifestPosts == allowedPosts(PostNames)

ManifestImages == allowedImages(ImageNames)

\* What readManifest returns, lines 55-67: <<>> stands for null (no
\* manifest.csv, or no post,image line in it), else the pairs in file order.
Manifests ==
  {<<>>}
  \cup UNION {[1 .. n -> [postName : ManifestPosts,
                          imageName : ManifestImages]] :
              n \in 1 .. MaxManifest}

\* The manifests that pair staged files, each file at most once: what
\* inbox/manifest.csv may hold while the pipeline runs (<<>>: no manifest).
stagedManifests(inP, inI) ==
  {m \in Manifests :
     /\ \A k \in 1 .. Len(m) : m[k].postName \in inP /\ m[k].imageName \in inI
     /\ \A k, l \in 1 .. Len(m) :
          k # l => m[k].postName # m[l].postName
                   /\ m[k].imageName # m[l].imageName}

\* Lines 131-153: the move loop from pair i on.  fail = <<i, "post">> makes
\* the rename of pair i's post throw, <<i, "image">> the rename of its image.
RECURSIVE renameLoop(_, _, _, _, _, _, _)
renameLoop(st, posts, images, i, cursor, used, fail) ==
  IF i > Min2(Len(posts), Len(images)) THEN st
  ELSE LET cur == skipUsed(cursor, used)
           postName == posts[i]
           imgName == images[i]
           imgExt == toLowerCase(imgName.ext)
           s1 == [st EXCEPT !.inP = @ \ {postName},
                            !.cP = putFile(@, cur, postName)]
           s2 == [s1 EXCEPT !.inI = @ \ {imgName},
                            !.cI = putFile(@, <<cur, imgExt>>, imgName),
                            !.assigned = Append(@, [post |-> postName,
                                                    image |-> imgName,
                                                    date |-> cur])]
       IN IF fail = <<i, "post">> THEN [st EXCEPT !.threw = TRUE]
          ELSE IF fail = <<i, "image">>
          THEN [s1 EXCEPT !.threw = TRUE]
          ELSE renameLoop(s2, posts, images, i + 1, advanceCursor(cur),
                          used \cup {cur}, fail)

NoFail == <<0, "none">>

loopStart ==
  [inP |-> inboxPosts, inI |-> inboxImages, cP |-> contentPosts,
   cI |-> contentImages, assigned |-> <<>>, threw |-> FALSE]

\* What the allocation just made did: the entry point and the pairs it moved
\* completely, in loop order, each with its date.
allocRecord(entry, outcome, manifest, st) ==
  [entry |-> entry, outcome |-> outcome, manifest |-> manifest,
   assigned |-> st.assigned]

\* renameInboxToContent, lines 79-159, with the I/O failure `fail`, run while
\* inbox/manifest.csv holds `manifest`: no line of the function reads it.
renameResult(manifest, fail) ==
  LET inboxPostsAll == inboxPosts \ {GitKeep}
      inboxImagesAll == inboxImages \ {GitKeep}
      posts == sortLocale(allowedPosts(inboxPostsAll))
      images == sortLocale(allowedImages(inboxImagesAll))
      pairsToCreate == Min2(Len(posts), Len(images))
      cursor == startCursor(today, postDates(contentPosts))
      used == postDates(contentPosts)
      st == renameLoop(loopStart, posts, images, 1, cursor, used, fail)
      created == Len(st.assigned)
      res(outcome, s, al) ==
        [st |-> s, alerts |-> al, outcome |-> outcome,
         alloc |-> allocRecord("pipeline", outcome, manifest, s)]
  IN IF inboxPostsAll = {} /\ inboxImagesAll = {}
     THEN res("empty", loopStart, alerts)
     ELSE IF Len(posts) # Cardinality(inboxPostsAll)
     THEN res("badext", loopStart, Append(alerts, Msg("PostsExt", 0, 0, 0)))
     ELSE IF Len(images) # Cardinality(inboxImagesAll)
     THEN res("badext", loopStart, Append(alerts, Msg("ImagesExt", 0, 0, 0)))
     ELSE IF pairsToCreate = 0
     THEN res("waiting", loopStart,
              alerts
              \o (IF Len(posts) > 0
                  THEN <<Msg("WaitImages", Len(posts), 0, 0)>> ELSE <<>>)
              \o (IF Len(images) > 0
                  THEN <<Msg("WaitPosts", Len(images), 0, 0)>> ELSE <<>>))
     ELSE IF st.threw
     THEN res("threw", st,
              alerts \o <<Msg("Mode", cursor, 0, 0), Msg("Assoc", 0, 0, 0)>>)
     ELSE res("done", st,
              alerts \o <<Msg("Mode", cursor, 0, 0), Msg("Assoc", 0, 0, 0),
                          Msg("Created", created, Len(posts) - created,
                              Len(images) - created)>>)

\* The I/O failures that can be injected into the move loop: one of the two
\* renames of one of the pairs the loop reaches.
renameFails ==
  LET inboxPostsAll == inboxPosts \ {GitKeep}
      inboxImagesAll == inboxImages \ {GitKeep}
      okP == allowedPosts(inboxPostsAll)
      okI == allowedImages(inboxImagesAll)
  IN IF failures < MaxFailures /\ okP = inboxPostsAll /\ okI = inboxImagesAll
     THEN (1 .. Min2(Cardinality(okP), Cardinality(okI))) \X {"post", "image"}
     ELSE {}

renameInboxToContent ==
  /\ pc = "rename"
  /\ \E manifest \in stagedManifests(inboxPosts, inboxImages),
        fail \in {NoFail} \cup renameFails :
       LET r == renameResult(manifest, fail)
       IN /\ inboxPosts' = r.st.inP
          /\ inboxImages' = r.st.inI
          /\ contentPosts' = r.st.cP
          /\ contentImages' = r.st.cI
          /\ alerts' = r.alerts
          /\ alloc' = r.alloc
          /\ pc' = IF r.st.threw THEN "catch" ELSE "prune"
          /\ failures' = IF r.st.threw THEN failures + 1 ELSE failures
  /\ UNCHANGED <<today, ticks, docsImages, index, outbox, alertsFile, uploads,
                 runStart, runs, lastEvent>>

\* The n chronologically first dates of D: posts.slice(0, n) of the list
\* sorted ascending by date.
oldest(D, n) == {d \in D : Cardinality({e \in D : e < d}) < n}

\* The j-th date of D in ascending order (1-based).
nth(D, j) == CHOOSE d \in D : Cardinality({e \in D : e < d}) = j - 1

\* A variant that deletes the newest slots in place of the oldest.
toDelete_newest(cP) ==
  IF Cardinality(postDates(cP)) <= MAX_PAIRS THEN {}
  ELSE postDates(cP) \ oldest(postDates(cP), MAX_PAIRS)

\* A variant that deletes the oldest slot at every run, cap or no cap.
toDelete_one(cP) == oldest(postDates(cP), 1)

\* toDelete of pruneTo200, line 170, as a set of dates.
toDelete(cP) ==
  IF Cardinality(postDates(cP)) <= MAX_PAIRS THEN {}
  ELSE oldest(postDates(cP), Cardinality(postDates(cP)) - MAX_PAIRS)

\* The I/O failures that can be injected into pruneTo200: the rm of the j-th
\* post to delete, or the rm of an image of the j-th slot to delete.
pruneFails ==
  IF failures < MaxFailures
  THEN {f \in (1 .. Cardinality(toDelete(contentPosts))) \X {"post", "image"} :
          f[2] = "image" =>
            imagesOf(contentImages, nth(toDelete(contentPosts), f[1])) # {}}
  ELSE {}

\* pruneTo200, lines 161-180, with the I/O failure `fail`.
pruneResult(fail) ==
  LET del == toDelete(contentPosts)
      n == Cardinality(del)
      full == IF fail = NoFail THEN del ELSE oldest(del, fail[1] - 1)
      half == IF fail # NoFail /\ fail[2] = "image"
              THEN {nth(del, fail[1])} ELSE {}
      gone == UNION {imagesOf(contentImages, d) : d \in full}
  IN [cP |-> rmFiles(contentPosts, full \cup half),
      cI |-> rmFiles(contentImages, gone),
      alerts |-> IF n > 0 /\ fail = NoFail
                 THEN Append(alerts, Msg("Purge", n, MAX_PAIRS, 0))
                 ELSE alerts,
      threw |-> fail # NoFail]

pruneTo200 ==
  /\ pc = "prune"
  /\ \E fail \in {NoFail} \cup pruneFails :
       LET r == pruneResult(fail)
       IN /\ contentPosts' = r.cP
          /\ contentImages' = r.cI
          /\ alerts' = r.alerts
          /\ pc' = IF r.threw THEN "catch" ELSE "copy"
          /\ failures' = IF r.threw THEN failures + 1 ELSE failures
  /\ alloc' = NoAlloc
  /\ UNCHANGED <<today, ticks, inboxPosts, inboxImages, docsImages, index,
                 outbox, alertsFile, uploads, runStart, runs, lastEvent>>

\* The I/O failures that can be injected into copyImagesToDocs: the mkdir,
\* the first copyFile, the second copyFile.
copyFails ==
  IF failures < MaxFailures
  THEN {"mkdir"}
       \cup (IF DOMAIN contentImages # {} THEN {"copy1"} ELSE {})
       \cup (IF Cardinality(DOMAIN contentImages) > 1 THEN {"copy2"} ELSE {})
  ELSE {}

\* A variant that copies over the mirror without clearing it first.
copyResult_keep(fail) ==
  IF fail = "none"
  THEN [k \in DOMAIN docsImages \cup DOMAIN contentImages |->
          IF k \in DOMAIN contentImages THEN contentImages[k] ELSE docsImages[k]]
  ELSE docsImages

\* copyImagesToDocs, lines 182-192: the mirror after the call.  A failed
\* copy leaves the mirror cleared, with the images copied before the failure.
copyResult(fail) ==
  LET first == CHOOSE k \in DOMAIN contentImages :
                 \A j \in DOMAIN contentImages : k[1] <= j[1]
  IN CASE fail = "none" -> contentImages
       [] fail = "mkdir" -> docsImages
       [] fail = "copy1" -> EmptyDir
       [] fail = "copy2" -> [k \in {first} |-> contentImages[k]]

copyImagesToDocs ==
  /\ pc = "copy"
  /\ \E fail \in {"none"} \cup copyFails :
       /\ docsImages' = copyResult(fail)
       /\ pc' = IF fail # "none" THEN "catch" ELSE "index"
       /\ failures' = IF fail # "none" THEN failures + 1 ELSE failures
  /\ UNCHANGED <<today, ticks, inboxPosts, inboxImages, contentPosts, contentImages,
                 index, outbox, alertsFile, alerts, uploads, alloc, runStart,
                 runs, lastEvent>>

\* A set of dates as the list sorted ascending (lines 166 and 199).
RECURSIVE sortDates(_)
sortDates(D) ==
  IF D = {} THEN <<>>
  ELSE LET m == CHOOSE x \in D :
                  Cardinality({y \in D : compare(y, x) < 0}) = Cardinality(D) \div 2
       IN sortDates({y \in D : compare(y, m) < 0}) \o <<m>>
            \o sortDates({y \in D : compare(y, m) > 0})

\* imageFiles.find(n => n.startsWith(date + ".")), line 205: the first match
\* in directory order.
findImage(cI, date) == CHOOSE k \in imagesOf(cI, date) : TRUE

\* One entry of posts, lines 211-216; image_url is image_file behind a fixed
\* prefix and is not kept apart.
indexEntry(cP, cI, date) ==
  [date |-> date, text |-> cP[date], image_file |-> findImage(cI, date)]

\* A variant that leaves the oldest slot out of the index.
indexPosts_skipOldest(cP, cI) ==
  LET withImage == SelectSeq(sortDates(postDates(cP)),
                             LAMBDA d : imagesOf(cI, d) # {})
      rest == IF withImage = <<>> THEN <<>> ELSE Tail(withImage)
  IN [i \in 1 .. Len(rest) |-> indexEntry(cP, cI, rest[i])]

\* The posts array built by lines 203-217.
indexPosts(cP, cI) ==
  LET withImage == SelectSeq(sortDates(postDates(cP)),
                             LAMBDA d : imagesOf(cI, d) # {})
  IN [i \in 1 .. Len(withImage) |-> indexEntry(cP, cI, withImage[i])]

\* A variant that reports no missing image.
missingImages_none(cP, cI) == <<>>

\* The anomalies pushed by line 207, in loop order.
missingImages(cP, cI) ==
  LET without == SelectSeq(sortDates(postDates(cP)),
                           LAMBDA d : imagesOf(cI, d) = {})
  IN [i \in 1 .. Len(without) |-> Msg("MissingImage", without[i], 0, 0)]

\* posts.find(p => p.date === today), line 226.
todayPost(posts, todayISO) ==
  IF \E i \in 1 .. Len(posts) : posts[i].date = todayISO
  THEN posts[CHOOSE i \in 1 .. Len(posts) : posts[i].date = todayISO]
  ELSE Absent

\* A variant that leaves a today.json of an earlier day in place.
outboxAfter_stale(posts, todayISO, old) ==
  IF todayPost(posts, todayISO) # Absent THEN todayPost(posts, todayISO)
  ELSE old

\* Lines 229-233: today.json after the call.
outboxAfter(posts, todayISO, old) ==
  IF todayPost(posts, todayISO) # Absent THEN todayPost(posts, todayISO)
  ELSE Absent

\* The index document, lines 219-223, without generated_at.
indexDoc(posts) == [count |-> Len(posts), posts |-> posts]

\* The I/O failures that can be injected into buildIndexAndOutbox: a
\* readText or the write of index.json; the write or rm of today.json.
indexFails ==
  IF failures < MaxFailures
  THEN {"index"}
       \cup (IF outbox # Absent
                \/ todayPost(indexPosts(contentPosts, contentImages), today) # Absent
             THEN {"outbox"} ELSE {})
  ELSE {}

buildIndexAndOutbox ==
  /\ pc = "index"
  /\ \E fail \in {"none"} \cup indexFails :
       LET posts == indexPosts(contentPosts, contentImages)
       IN /\ alerts' = alerts \o missingImages(contentPosts, contentImages)
          /\ index' = IF fail = "index" THEN index ELSE indexDoc(posts)
          /\ outbox' = IF fail = "none" THEN outboxAfter(posts, today, outbox)
                       ELSE outbox
          /\ pc' = IF fail # "none" THEN "catch" ELSE "write"
          /\ failures' = IF fail # "none" THEN failures + 1 ELSE failures
  /\ UNCHANGED <<today, ticks, inboxPosts, inboxImages, contentPosts, contentImages,
                 docsImages, alertsFile, uploads, alloc, runStart, runs,
                 lastEvent>>

\* A variant that appends the messages to those already in the file.
alertsDoc_append(old, messages) ==
  IF old = Absent THEN [messages |-> messages]
  ELSE [messages |-> old.messages \o messages]

\* writeAlerts(messages), lines 72-77: the document written, without
\* generated_at.
alertsDoc(old, messages) == [messages |-> messages]

\* main, line 245: the last step of a run in which no stage threw.
writeAlerts ==
  /\ pc = "write"
  /\ \E fail \in {FALSE} \cup (IF failures < MaxFailures THEN {TRUE} ELSE {}) :
       /\ alertsFile' = IF fail THEN alertsFile ELSE alertsDoc(alertsFile, alerts)
       /\ pc' = IF fail THEN "catch" ELSE "idle"
       /\ lastEvent' = IF fail THEN lastEvent ELSE "completed"
       /\ failures' = IF fail THEN failures + 1 ELSE failures
       /\ alerts' = IF fail THEN alerts ELSE <<>>
  /\ UNCHANGED <<today, ticks, inboxPosts, inboxImages, contentPosts,
                 contentImages, docsImages, index, outbox, uploads, alloc,
                 runStart, runs>>

\* main().catch, lines 248-251: the failure is written as the only message and
\* the process exits.  The write of alerts.json in the handler is taken to
\* succeed: a failure there is an unhandled rejection no code handles.
catchHandler ==
  /\ pc = "catch"
  /\ alertsFile' = alertsDoc(alertsFile, <<Msg("PipelineError", 0, 0, 0)>>)
  /\ pc' = "idle"
  /\ lastEvent' = "failed"
  /\ alerts' = <<>>
  /\ runStart' = NoRun
  /\ alloc' = NoAlloc
  /\ UNCHANGED <<today, ticks, inboxPosts, inboxImages, contentPosts,
                 contentImages, docsImages, index, outbox, uploads, failures,
                 runs>>

\* ========================================================= ingest.mjs

\* Lines 84 and 126: while (!isWeekdayISO(cursor)) cursor = nextISO(cursor).
RECURSIVE skipWeekend(_)
skipWeekend(iso) ==
  IF isWeekdayISO(iso) THEN iso ELSE skipWeekend(nextISO(iso))

\* A variant that does not look at the dates of the store.
nextAvailableStartDate_today(todayISO, existing) == skipWeekend(todayISO)

\* nextAvailableStartDate, lines 69-86.
nextAvailableStartDate(todayISO, existing) ==
  LET afterLast == nextISO(Max(existing))
      start == IF existing # {}
               THEN (IF afterLast < todayISO THEN todayISO ELSE afterLast)
               ELSE todayISO
  IN skipWeekend(start)

\* A variant that leaves the cursor where it is.
ingestAdvance_stay(cur) == cur

\* Line 140: the cursor after a pair was placed on cur.
ingestAdvance(cur) == nextISO(cur)

\* Lines 107: inboxPosts.map((p, i) => ({postName: p, imageName: inboxImages[i]})).
zipPairs(posts, images) ==
  [i \in 1 .. Len(posts) |-> [postName |-> posts[i], imageName |-> images[i]]]

\* Lines 111-119: whether the validation loop passes every pair.
pairsValid(pairs) ==
  \A i \in 1 .. Len(pairs) :
    /\ pairs[i].postName \in inboxPosts
    /\ pairs[i].imageName \in inboxImages
    /\ toLowerCase(pairs[i].imageName.ext) \in IMAGE_EXTS

\* Lines 124-141: the move loop from pair k on.  A rename whose source file is
\* no longer in the inbox throws (ENOENT); fail injects an I/O failure as in
\* renameLoop.
RECURSIVE ingestLoop(_, _, _, _, _)
ingestLoop(st, pairs, k, cursor, fail) ==
  IF k > Len(pairs) THEN st
  ELSE LET cur == skipWeekend(cursor)
           postName == pairs[k].postName
           imageName == pairs[k].imageName
           imgExt == toLowerCase(imageName.ext)
           s1 == [st EXCEPT !.inP = @ \ {postName},
                            !.cP = putFile(@, cur, postName)]
           s2 == [s1 EXCEPT !.inI = @ \ {imageName},
                            !.cI = putFile(@, <<cur, imgExt>>, imageName),
                            !.assigned = Append(@, [post |-> postName,
                                                    image |-> imageName,
                                                    date |-> cur])]
       IN IF fail = <<k, "post">> \/ postName \notin st.inP
          THEN [st EXCEPT !.threw = TRUE]
          ELSE IF fail = <<k, "image">> \/ imageName \notin s1.inI
          THEN [s1 EXCEPT !.threw = TRUE]
          ELSE ingestLoop(s2, pairs, k + 1, ingestAdvance(cur), fail)

\* ingest, lines 88-142, with the manifest read and the I/O failure `fail`.
\* readManifest is called on line 103, after the returns of lines 94-101: a
\* run that ends there has read no manifest.
ingestResult(manifest, fail) ==
  LET posts == sortCodeUnit(inboxPosts)
      images == sortCodeUnit(inboxImages)
      pairs == IF manifest # <<>> THEN manifest ELSE zipPairs(posts, images)
      cursor == nextAvailableStartDate(today, postDates(contentPosts))
      st == ingestLoop(loopStart, pairs, 1, cursor, fail)
      res(outcome, read, s) ==
        [st |-> s, outcome |-> outcome,
         alloc |-> allocRecord("ingest", outcome, read, s)]
  IN IF posts = <<>> /\ images = <<>> THEN res("empty", <<>>, loopStart)
     ELSE IF Len(posts) # Len(images) THEN res("mismatch", <<>>, loopStart)
     ELSE IF ~pairsValid(pairs) THEN res("invalid", manifest, loopStart)
     ELSE IF st.threw THEN res("threw", manifest, st)
     ELSE res("done", manifest, st)

\* The I/O failures that can be injected into ingest's move loop.
ingestFails(manifest) ==
  IF failures < MaxFailures /\ Cardinality(inboxPosts) = Cardinality(inboxImages)
  THEN (1 .. (IF manifest # <<>> THEN Len(manifest)
              ELSE Cardinality(inboxPosts))) \X {"post", "image"}
  ELSE {}

\* One run of scripts/ingest.mjs, from start to exit.
ingest ==
  /\ pc = "idle"
  /\ runs < MaxRuns
  /\ runs' = runs + 1
  /\ \E manifest \in Manifests :
       \E fail \in {NoFail} \cup ingestFails(manifest) :
         LET r == ingestResult(manifest, fail)
         IN /\ inboxPosts' = r.st.inP
            /\ inboxImages' = r.st.inI
            /\ contentPosts' = r.st.cP
            /\ contentImages' = r.st.cI
            /\ alloc' = r.alloc
            /\ failures' = IF r.st.threw /\ fail # NoFail
                           THEN failures + 1 ELSE failures
  /\ lastEvent' = "other"
  /\ pc' = "ingested"
  /\ runStart' = NoRun
  /\ UNCHANGED <<today, ticks, docsImages, index, outbox, alertsFile, alerts,
                 uploads>>

\* The ingest process exits (line 142, or process.exit(1) of line 146).
ingestExit ==
  /\ pc = "ingested"
  /\ pc' = "idle"
  /\ alloc' = NoAlloc
  /\ UNCHANGED <<today, ticks, inboxPosts, inboxImages, contentPosts,
                 contentImages, docsImages, index, outbox, alertsFile, alerts,
                 uploads, failures, runStart, runs, lastEvent>>

\* ===================================================== specifications

Next ==
  \/ UploadPost
  \/ UploadImage
  \/ Tick
  \/ StartRun
  \/ renameInboxToContent
  \/ pruneTo200
  \/ copyImagesToDocs
  \/ buildIndexAndOutbox
  \/ writeAlerts
  \/ catchHandler
  \/ ingest
  \/ ingestExit

Spec == Init /\ [][Next]_vars

\* The j-th Monday-Friday date from day 0 on (j = 0 is day 0).
weekdayNo(j) == 7 * (j \div 5) + (j % 5)

\* A store close to the cap, as n runs of ingest on day 0 leave it, each run
\* fed one pair a.txt, a.png: the first n weekdays from day 0, and no
\* pipeline run made yet.  The budgets left are two uploads and one run.
InitFull ==
  /\ today = 0
  /\ ticks = 0
  /\ inboxPosts = {}
  /\ inboxImages = {}
  /\ \E n \in MAX_PAIRS - 1 .. MAX_PAIRS - 1 + MaxOver :
       /\ contentPosts =
            [d \in {weekdayNo(j) : j \in 0 .. n - 1} |-> [base |-> "a", ext |-> ".txt"]]
       /\ contentImages =
            [k \in {<<weekdayNo(j), ".png">> : j \in 0 .. n - 1} |->
               [base |-> "a", ext |-> ".png"]]
  /\ docsImages = EmptyDir
  /\ index = Absent
  /\ outbox = Absent
  /\ alertsFile = Absent
  /\ pc = "idle"
  /\ alerts = <<>>
  /\ uploads = MaxUploads - 2
  /\ failures = 0
  /\ alloc = NoAlloc
  /\ runStart = NoRun
  /\ runs = MaxRuns - 1
  /\ lastEvent = "other"

SpecFull == InitFull /\ [][Next]_vars

\* The store of the first n weekdays from day 0, each slot a.txt and a.png.
fullPosts(n) ==
  [d \in {weekdayNo(j) : j \in 0 .. n - 1} |-> [base |-> "a", ext |-> ".txt"]]

fullImages(n) ==
  [k \in {<<weekdayNo(j), ".png">> : j \in 0 .. n - 1} |->
     [base |-> "a", ext |-> ".png"]]

\* A store at or over the cap whose derived artifacts are older than it: the
\* state left on day 0 by MAX_PAIRS - 1 runs of ingest, each fed one pair
\* a.txt, a.png, then one completed pipeline run with empty staging areas,
\* then one or more further runs of ingest.  The budgets left are two uploads
\* and one run.
InitMirrored ==
  /\ today = 0
  /\ ticks = 0
  /\ inboxPosts = {}
  /\ inboxImages = {}
  /\ \E n \in MAX_PAIRS .. MAX_PAIRS - 1 + MaxOver :
       /\ contentPosts = fullPosts(n)
       /\ contentImages = fullImages(n)
  /\ docsImages = fullImages(MAX_PAIRS - 1)
  /\ index = indexDoc(indexPosts(fullPosts(MAX_PAIRS - 1),
                                 fullImages(MAX_PAIRS - 1)))
  /\ outbox = indexEntry(fullPosts(MAX_PAIRS - 1), fullImages(MAX_PAIRS - 1), 0)
  /\ alertsFile = alertsDoc(Absent, <<>>)
  /\ pc = "idle"
  /\ alerts = <<>>
  /\ uploads = MaxUploads - 2
  /\ failures = 0
  /\ alloc = NoAlloc
  /\ runStart = NoRun
  /\ runs = MaxRuns - 1
  /\ lastEvent = "other"

SpecMirrored == InitMirrored /\ [][Next]_vars

\* The steps of the pipeline process.
PipelineNext ==
  \/ renameInboxToContent
  \/ pruneTo200
  \/ copyImagesToDocs
  \/ buildIndexAndOutbox
  \/ writeAlerts
  \/ catchHandler

\* The pipeline alone: uploads, midnights and runs of pipeline.mjs, from the
\* empty store; ingest.mjs is never run.
NextPipeline ==
  \/ UploadPost
  \/ UploadImage
  \/ Tick
  \/ StartRun
  \/ renameInboxToContent
  \/ pruneTo200
  \/ copyImagesToDocs
  \/ buildIndexAndOutbox
  \/ writeAlerts
  \/ catchHandler

SpecPipeline == Init /\ [][NextPipeline]_vars

\* The state one run of ingest on day 0 leaves, fed the pair a.txt, a.png:
\* one slot on day 0, two uploads and one run spent.
InitLive ==
  /\ today = 0
  /\ ticks = 0
  /\ inboxPosts = {}
  /\ inboxImages = {}
  /\ contentPosts = putFile(EmptyDir, 0, [base |-> "a", ext |-> ".txt"])
  /\ contentImages = putFile(EmptyDir, <<0, ".png">>, [base |-> "a", ext |-> ".png"])
  /\ docsImages = EmptyDir
  /\ index = Absent
  /\ outbox = Absent
  /\ alertsFile = Absent
  /\ pc = "idle"
  /\ alerts = <<>>
  /\ uploads = 2
  /\ failures = 0
  /\ alloc = NoAlloc
  /\ runStart = NoRun
  /\ runs = 1
  /\ lastEvent = "other"

\* A started pipeline process runs on to its exit: main awaits each stage in
\* turn and nothing else is scheduled (lines 236-251).
FairSpec == InitLive /\ [][Next]_vars /\ WF_vars(PipelineNext)

\* ============================================================= claims

\* A step in which an allocation was made: renameInboxToContent, or ingest.
AllocStep == alloc.entry = "none" /\ alloc'.entry # "none"

\* Monday to Friday, read off the day number (day 0 is a Monday).
MonToFri(d) == d % 7 \in 0 .. 4

\* The dates that name a file of the content store.
storeDates == DOMAIN contentPosts \cup {k[1] : k \in DOMAIN contentImages}

\* C1: every date of the content store is a Monday-Friday date and no date
\* holds two slots (two images), whatever runs of the pipeline and of ingest
\* were made from the empty store.
C1_StoreDatesWeekdayUnique ==
  \A d \in storeDates :
    MonToFri(d) /\ Cardinality(imagesOf(contentImages, d)) <= 1

C1_Witness ==
  /\ Cardinality(DOMAIN contentPosts) >= 2
  /\ \E d \in DOMAIN contentPosts : d >= 7
  /\ \E d \in DOMAIN contentPosts : d < 5

\* The first Monday-Friday date on or after d.
FirstWeekdayFrom(d) ==
  CHOOSE w \in d .. d + 2 : MonToFri(w) /\ \A v \in d .. w - 1 : ~MonToFri(v)

\* max(tomorrowWeekday, afterLastWeekday) of the allocation design.
Baseline(t, existing) ==
  LET tomorrowWeekday == FirstWeekdayFrom(t + 1)
      afterLastWeekday == FirstWeekdayFrom(Max(existing) + 1)
  IN IF existing = {} \/ afterLastWeekday < tomorrowWeekday
     THEN tomorrowWeekday ELSE afterLastWeekday

\* C2: in every allocation, by either entry point, the first assigned date is
\* max(tomorrowWeekday, afterLastWeekday).
C2_FirstDateIsBaseline ==
  [][(AllocStep /\ alloc'.assigned # <<>>)
       => alloc'.assigned[1].date = Baseline(today, DOMAIN contentPosts)]_vars

\* C3: an allocation places every pair on a date that held no file of the
\* store when the run started and that no earlier pair of the run was placed
\* on, and it leaves every file the store held as it was.
C3_NoOccupiedDate ==
  [][AllocStep =>
       LET a == alloc'.assigned
       IN /\ \A i \in 1 .. Len(a) :
               /\ a[i].date \notin DOMAIN contentPosts
               /\ imagesOf(contentImages, a[i].date) = {}
               /\ \A j \in 1 .. i - 1 : a[j].date # a[i].date
          /\ \A d \in DOMAIN contentPosts :
               d \in DOMAIN contentPosts' /\ contentPosts'[d] = contentPosts[d]
          /\ \A k \in DOMAIN contentImages :
               k \in DOMAIN contentImages' /\ contentImages'[k] = contentImages[k]
          /\ Cardinality(DOMAIN contentPosts')
               = Cardinality(DOMAIN contentPosts)
                 + Cardinality(inboxPosts \ inboxPosts')]_vars

C3_Witness ==
  /\ alloc.entry # "none"
  /\ Len(alloc.assigned) >= 1
  /\ Cardinality(DOMAIN contentPosts) > Len(alloc.assigned)

\* C4: within one run, a pair that comes earlier in the pairing sequence gets
\* a strictly earlier date.
C4_PairOrderIsDateOrder ==
  \A i, j \in 1 .. Len(alloc.assigned) :
    i < j => alloc.assigned[i].date < alloc.assigned[j].date

C4_Witness == Len(alloc.assigned) >= 2

\* C5: pruneTo200 leaves at most MAX_PAIRS slots; when it found count over
\* MAX_PAIRS it removed the count - MAX_PAIRS slots of the earliest dates,
\* text and images, kept every other slot as it was and pushed one alert that
\* tells the number removed; otherwise it changed nothing.
C5_PruneOldest ==
  [][(pc = "prune" /\ pc' = "copy") =>
       LET before == DOMAIN contentPosts
           after == DOMAIN contentPosts'
           removed == before \ after
           n == Cardinality(before) - MAX_PAIRS
       IN /\ Cardinality(after) <= MAX_PAIRS
          /\ after \subseteq before
          /\ \A d \in after : contentPosts'[d] = contentPosts[d]
          /\ \A k \in DOMAIN contentImages :
               IF k[1] \in removed
               THEN k \notin DOMAIN contentImages'
               ELSE k \in DOMAIN contentImages'
                    /\ contentImages'[k] = contentImages[k]
          /\ DOMAIN contentImages' \subseteq DOMAIN contentImages
          /\ IF n > 0
             THEN /\ Cardinality(removed) = n
                  /\ \A r \in removed : \A k \in after : r < k
                  /\ alerts' = Append(alerts, Msg("Purge", n, MAX_PAIRS, 0))
             ELSE removed = {} /\ alerts' = alerts]_vars

C5_Witness ==
  /\ pc = "copy"
  /\ alerts # <<>>
  /\ alerts[Len(alerts)].msg = "Purge"
  /\ alerts[Len(alerts)].a >= 2
  /\ Cardinality(DOMAIN contentPosts) = MAX_PAIRS

\* C6: a pipeline run that found both staging areas empty, started after a
\* completed run with nothing but midnights in between, and completed, left
\* the content store as it was and wrote the index the previous run wrote.
C6_RerunIdempotent ==
  (/\ pc = "idle"
   /\ lastEvent = "completed"
   /\ runStart.afterCompleted
   /\ runStart.posts = {}
   /\ runStart.images = {})
  => /\ contentPosts = runStart.contentPosts
     /\ contentImages = runStart.contentImages
     /\ index = runStart.index

C6_Witness ==
  /\ pc = "idle"
  /\ lastEvent = "completed"
  /\ runStart.afterCompleted
  /\ runStart.posts = {}
  /\ runStart.images = {}
  /\ index # Absent
  /\ index.count >= 1

\* A slot of the store: a text and an image under the date d.
HasSlot(d) == d \in DOMAIN contentPosts /\ imagesOf(contentImages, d) # {}

\* today.json is there exactly when the store has a slot dated today, and
\* then it is that slot's index entry.
OutboxIsToday ==
  /\ (outbox # Absent) <=> HasSlot(today)
  /\ HasSlot(today) =>
       \E k \in imagesOf(contentImages, today) :
         outbox = [date |-> today, text |-> contentPosts[today],
                   image_file |-> k]

\* C7: when a pipeline run completes, today.json exists if and only if the
\* store has a slot dated today, and it equals that slot's index entry; a
\* today.json of an earlier day is gone.
C7_OutboxCurrent ==
  [][(pc = "write" /\ pc' = "idle") => OutboxIsToday']_vars

C7_Witness ==
  /\ pc = "idle"
  /\ lastEvent = "completed"
  /\ outbox # Absent
  /\ HasSlot(today)
  /\ ticks >= 1

\* A staged file has an extension outside the allow-list of its kind.
BadExtStaged ==
  \/ \E n \in inboxPosts \ {GitKeep} : toLowerCase(n.ext) \notin POST_EXTS
  \/ \E n \in inboxImages \ {GitKeep} : toLowerCase(n.ext) \notin IMAGE_EXTS

\* What the pipeline's allocation stage does with a staged file of an extension
\* outside its allow-list: it moves no file, pushes the anomaly onto the alerts
\* and returns, so that pruning and the later stages run on the unchanged
\* store.
PipelineBadExtensionAborts ==
  [][(pc = "rename" /\ pc' # "rename" /\ BadExtStaged) =>
       /\ inboxPosts' = inboxPosts
       /\ inboxImages' = inboxImages
       /\ contentPosts' = contentPosts
       /\ contentImages' = contentImages
       /\ pc' = "prune"
       /\ Len(alerts') = Len(alerts) + 1
       /\ alerts'[Len(alerts')].msg \in {"PostsExt", "ImagesExt"}]_vars

\* C8: when a staged file, post or image, has an extension outside its
\* allow-list, the allocation of the run, in either entry point, moves no
\* file: staging and store are as they were.
C8_NoMoveOnBadExtension ==
  [][(AllocStep /\ BadExtStaged) =>
       /\ inboxPosts' = inboxPosts
       /\ inboxImages' = inboxImages
       /\ contentPosts' = contentPosts
       /\ contentImages' = contentImages]_vars

C10_LenientEverywhere ==
  [][(/\ AllocStep
      /\ alloc'.manifest = <<>>
      /\ alloc'.outcome # "threw"
      /\ ~BadExtStaged
      /\ Cardinality(inboxPosts) # Cardinality(inboxImages)) =>
       LET p == Cardinality(inboxPosts)
           i == Cardinality(inboxImages)
       IN /\ Len(alloc'.assigned) = Min2(p, i)
          /\ Cardinality(inboxPosts') = p - Min2(p, i)
          /\ Cardinality(inboxImages') = i - Min2(p, i)
          /\ alloc'.outcome \in {"done", "waiting"}]_vars

\* The pairs an allocation moved, in loop order, without their dates.
movedPairs(a) ==
  [k \in 1 .. Len(a.assigned) |->
     [postName |-> a.assigned[k].post, imageName |-> a.assigned[k].image]]

\* C11: when manifest.csv holds at least one pair, and its pairs are the
\* staged files (as many pairs as staged posts and as staged images, all of
\* allowed extensions), an allocation that does not throw, in either entry
\* point, moves exactly the manifest's pairs in manifest order, the k-th pair
\* onto the k-th assigned date.
C11_ManifestVerbatim ==
  [][(/\ AllocStep
      /\ alloc'.manifest # <<>>
      /\ alloc'.manifest \in stagedManifests(inboxPosts, inboxImages)
      /\ Len(alloc'.manifest) = Cardinality(inboxPosts)
      /\ Len(alloc'.manifest) = Cardinality(inboxImages)
      /\ ~BadExtStaged
      /\ alloc'.outcome # "threw")
     => movedPairs(alloc') = alloc'.manifest]_vars

\* The same for the ingest entry point alone.
IngestManifestVerbatim ==
  [][(/\ AllocStep
      /\ alloc'.entry = "ingest"
      /\ alloc'.manifest # <<>>
      /\ alloc'.manifest \in stagedManifests(inboxPosts, inboxImages)
      /\ Len(alloc'.manifest) = Cardinality(inboxPosts)
      /\ Len(alloc'.manifest) = Cardinality(inboxImages)
      /\ ~BadExtStaged
      /\ alloc'.outcome # "threw")
     => movedPairs(alloc') = alloc'.manifest]_vars

\* C12: when ingest reads a manifest whose number of pairs differs from the
\* number of staged posts, it aborts: no staged file is moved, the store is
\* as it was, and the run does not end as a completed allocation.
C12_ManifestCountMismatchAborts ==
  [][(/\ AllocStep
      /\ alloc'.entry = "ingest"
      /\ alloc'.manifest # <<>>
      /\ Len(alloc'.manifest) # Cardinality(inboxPosts))
     => /\ inboxPosts' = inboxPosts
        /\ inboxImages' = inboxImages
        /\ contentPosts' = contentPosts
        /\ contentImages' = contentImages
        /\ alloc'.outcome # "done"]_vars

\* C13: once copyImagesToDocs has returned, and up to the end of the run, the
\* mirror docs/assets/images holds exactly the image files the store holds,
\* each with the store's content: nothing of a pruned slot, nothing left from
\* an earlier run.
C13_MirrorEqualsStore ==
  (pc \in {"index", "write"} \/ (pc = "idle" /\ lastEvent = "completed"))
  => docsImages = contentImages

C13_Witness ==
  /\ pc = "idle"
  /\ lastEvent = "completed"
  /\ <<0, ".png">> \notin DOMAIN docsImages
  /\ <<weekdayNo(MAX_PAIRS), ".png">> \in DOMAIN docsImages
  /\ Cardinality(DOMAIN docsImages) = MAX_PAIRS

\* The store dates that have a text and no image.
orphanDates == {d \in DOMAIN contentPosts : imagesOf(contentImages, d) = {}}

\* C14: the index buildIndexAndOutbox writes is a projection of the store as
\* allocation and pruning left it: one entry per store date that has an
\* image, holding that date's text and an image of that date, in strictly
\* ascending date order, count being the number of entries.  A store date
\* with no image is left out and one anomaly naming it is pushed, and the run
\* goes on to write the alerts, which hold that anomaly.
C14_IndexIsProjection ==
  [][/\ (pc = "index" /\ pc' = "write") =>
          LET posts == index'.posts
              new == SubSeq(alerts', Len(alerts) + 1, Len(alerts'))
          IN /\ index'.count = Len(posts)
             /\ {posts[i].date : i \in 1 .. Len(posts)}
                  = {d \in DOMAIN contentPosts : HasSlot(d)}
             /\ \A i, j \in 1 .. Len(posts) :
                  i < j => posts[i].date < posts[j].date
             /\ \A i \in 1 .. Len(posts) :
                  /\ posts[i].text = contentPosts[posts[i].date]
                  /\ posts[i].image_file
                       \in imagesOf(contentImages, posts[i].date)
             /\ Len(new) = Cardinality(orphanDates)
             /\ \A d \in orphanDates :
                  \E i \in 1 .. Len(new) : new[i] = Msg("MissingImage", d, 0, 0)
             /\ contentPosts' = contentPosts
             /\ contentImages' = contentImages
     /\ (pc = "write" /\ pc' = "idle") =>
          \A d \in orphanDates :
            \E i \in 1 .. Len(alertsFile'.messages) :
              alertsFile'.messages[i] = Msg("MissingImage", d, 0, 0)]_vars

C14_Witness ==
  /\ pc = "idle"
  /\ lastEvent = "completed"
  /\ orphanDates # {}
  /\ index.count >= 1
  /\ \E i \in 1 .. Len(alertsFile.messages) :
       alertsFile.messages[i].msg = "MissingImage"

\* C15: the alerts.json a run writes holds every message the stages of the
\* run pushed, in the order pushed, also when a stage threw: the messages
\* pushed before the failure open the file.
C15_AlertsAccumulate ==
  [][((pc \in {"write", "catch"}) /\ pc' = "idle") =>
       /\ Len(alertsFile'.messages) >= Len(alerts)
       /\ SubSeq(alertsFile'.messages, 1, Len(alerts)) = alerts]_vars

\* The same for the runs in which no stage threw.
CompletedRunAlertsAccumulate ==
  [][(pc = "write" /\ pc' = "idle") => alertsFile'.messages = alerts]_vars

\* The image files of the store under a date that has no text.
orphanImages == {k \in DOMAIN contentImages : k[1] \notin DOMAIN contentPosts}

\* C16: a pipeline run that completes, whatever failed in the runs before
\* it, leaves the store as uninterrupted runs would: in particular no slot
\* lacks its image and no image lacks its text.
C16_RerunRecovers ==
  (pc = "idle" /\ lastEvent = "completed")
  => (orphanDates = {} /\ orphanImages = {})

\* The dates pruning is entitled to remove: the oldest ones over the cap.
overCap ==
  {d \in DOMAIN contentPosts :
     Cardinality({e \in DOMAIN contentPosts : e >= d}) > MAX_PAIRS}

\* C17: no step of any run updates a slot in place.  Every text and every
\* image of the store is, after the step, either still there with the same
\* content, or gone because the step is the pruner's and the file's date is
\* one of the oldest over the cap; and the files a step adds come under dates
\* that held neither a text nor an image.
C17_NoInPlaceUpdate ==
  [][/\ \A d \in DOMAIN contentPosts :
          \/ (d \in DOMAIN contentPosts' /\ contentPosts'[d] = contentPosts[d])
          \/ (pc = "prune" /\ d \in overCap /\ d \notin DOMAIN contentPosts')
     /\ \A k \in DOMAIN contentImages :
          \/ (k \in DOMAIN contentImages'
              /\ contentImages'[k] = contentImages[k])
          \/ (pc = "prune" /\ k[1] \in overCap /\ k \notin DOMAIN contentImages')
     /\ \A d \in DOMAIN contentPosts' \ DOMAIN contentPosts :
          /\ pc \in {"rename", "idle"}
          /\ imagesOf(contentImages, d) = {}
     /\ \A k \in DOMAIN contentImages' \ DOMAIN contentImages :
          /\ pc \in {"rename", "idle"}
          /\ k[1] \notin DOMAIN contentPosts]_vars

C17_Witness ==
  /\ pc = "copy"
  /\ 0 \notin DOMAIN contentPosts
  /\ weekdayNo(MAX_PAIRS - 1) \in DOMAIN contentPosts
  /\ weekdayNo(MAX_PAIRS - 1 + MaxOver) \in DOMAIN contentPosts
  /\ imagesOf(contentImages, weekdayNo(MAX_PAIRS - 1 + MaxOver)) # {}

\* C18: an allocation step, of either entry point, consumes each staged file
\* it places exactly once.  Every pair it moved has left both staging areas
\* and sits in the store under the pair's date, text and image; the pairs
\* moved have distinct dates, distinct texts and distinct images; and unless
\* the step threw, as many posts left staging as images, as many as texts
\* and as images were added to the store, one for each pair moved.
C18_ConsumedExactlyOnce ==
  [][AllocStep =>
       LET moved == alloc'.assigned
           n == Len(moved)
       IN /\ \A k \in 1 .. n :
               /\ moved[k].post \in inboxPosts
               /\ moved[k].post \notin inboxPosts'
               /\ moved[k].image \in inboxImages
               /\ moved[k].image \notin inboxImages'
               /\ moved[k].date \in DOMAIN contentPosts'
               /\ contentPosts'[moved[k].date] = moved[k].post
               /\ \E key \in imagesOf(contentImages', moved[k].date) :
                    contentImages'[key] = moved[k].image
               /\ moved[k].date \notin DOMAIN contentPosts
          /\ \A k, l \in 1 .. n :
               k # l => /\ moved[k].date # moved[l].date
                        /\ moved[k].post # moved[l].post
                        /\ moved[k].image # moved[l].image
          /\ inboxPosts' \subseteq inboxPosts
          /\ inboxImages' \subseteq inboxImages
          /\ alloc'.outcome # "threw" =>
               /\ Cardinality(inboxPosts \ inboxPosts') = n
               /\ Cardinality(inboxImages \ inboxImages') = n
               /\ Cardinality(DOMAIN contentPosts' \ DOMAIN contentPosts) = n
               /\ Cardinality(DOMAIN contentImages' \ DOMAIN contentImages) = n]_vars

C18_Witness ==
  /\ alloc.outcome = "done"
  /\ Len(alloc.assigned) >= 1
  /\ inboxPosts # {}
  /\ inboxImages # {}

\* Whether a list of alert messages reports a missing image.
reportsMissingImage(messages) ==
  \E i \in 1 .. Len(messages) : messages[i].msg = "MissingImage"

\* C19: from the empty store, as long as the pipeline alone has run and no
\* I/O call of it has failed, every store date has one text and exactly one
\* image, no image lacks its text, no missing-image anomaly has been pushed
\* or written, and after a completed run the index counts every store slot.
C19_SlotsComplete ==
  failures = 0 =>
    /\ \A d \in DOMAIN contentPosts :
         Cardinality(imagesOf(contentImages, d)) = 1
    /\ orphanImages = {}
    /\ ~reportsMissingImage(alerts)
    /\ alertsFile # Absent => ~reportsMissingImage(alertsFile.messages)
    /\ (pc = "idle" /\ lastEvent = "completed") =>
         index.count = Cardinality(DOMAIN contentPosts)

C19_Witness ==
  /\ failures = 0
  /\ pc = "idle"
  /\ lastEvent = "completed"
  /\ runs >= 2
  /\ index.count >= 2
  /\ Cardinality(DOMAIN contentPosts) = index.count

====
